---- MODULE Spec2Model ----
(***************************************************************************)
(* Model of .github/actions/stage/index.js: one invocation of the stage    *)
(* action (run) with the Packager (createPortableStructure), against the   *)
(* artifact store and the build output directory.                          *)
(*                                                                         *)
(* File and directory names are sequences of string pieces, one piece per  *)
(* literal or interpolated part of the template that builds them, so that  *)
(* `chromePortable-${arch}` is <<"chromePortable-", arch>> and             *)
(* startsWith('chromePortable-') is a test on the first piece.  A path     *)
(* inside the portable package is the sequence of names below portableRoot.*)
(***************************************************************************)
EXTENDS Integers, Sequences, FiniteSets, TLC

\* ---------------------------------------------------------------- bounds
\* number of build-output entries besides chrome.exe that the build driver
\* may leave in the output directory
MaxOther == 2

\* ------------------------------------------------------ program constants
MaxAttempts == 5

ExitCodes == {0, 1}
NotRun == -1

Nm(s) == <<s>>

ChromeExe == Nm("chrome.exe")
UserData == Nm("UserData")
ReadmeTxt == Nm("README.txt")
GitIgnore == Nm(".gitignore")
GitKeep == Nm(".gitkeep")

\* ------------------------------------------------- architecture selection
\* the tag with the suffix of the artifact names
ArchTagArm(x, a) == IF x THEN "x86" ELSE IF a THEN "arm" ELSE "x64"
ArchTag(x, a) == IF x THEN "x86" ELSE IF a THEN "arm64" ELSE "x64"

\* the snapshot name with the last two branches exchanged
ArtifactNameSwapped(x, a) == IF x THEN "build-artifact-x86" ELSE IF a THEN "build-artifact" ELSE "build-artifact-arm"
ArtifactName(x, a) == IF x THEN "build-artifact-x86" ELSE IF a THEN "build-artifact-arm" ELSE "build-artifact"

FinalArtifactName(x, a) == IF x THEN "chromium-x86" ELSE IF a THEN "chromium-arm" ELSE "chromium"

BuildArgs(x, a) == <<"build.py", "--ci">> \o (IF x THEN <<"--x86">> ELSE <<>>) \o (IF a THEN <<"--arm">> ELSE <<>>)

SnapshotNames == {ArtifactName(x, a) : x \in BOOLEAN, a \in BOOLEAN}
FinalNames == {FinalArtifactName(x, a) : x \in BOOLEAN, a \in BOOLEAN}
Names == SnapshotNames \cup FinalNames

PortableRootName(arch) == <<"chromePortable-", arch>>
ArchiveName(v, arch) == <<"ungoogled-chromium-", v, "-", arch, "-portable.zip">>
StartsWithPortable(file) == file[1] = "chromePortable-"

\* ------------------------------------------------------ the version query
IsWs(t) == t \in {" ", "\n"}

RECURSIVE TrimStart(_)
TrimStart(s) == IF s # <<>> /\ IsWs(Head(s)) THEN TrimStart(Tail(s)) ELSE s

RECURSIVE TrimEnd(_)
TrimEnd(s) == IF s # <<>> /\ IsWs(s[Len(s)]) THEN TrimEnd(SubSeq(s, 1, Len(s) - 1)) ELSE s

\* stdout.trim(): stdout is a sequence of pieces, at most one of them not
\* white space
Trim(s) == LET t == TrimEnd(TrimStart(s)) IN IF t = <<>> THEN "" ELSE t[1]

Stdouts == { <<"100.0.1", "\n">>, <<" ", "100.0.1", "\n">>, <<"\n">>, <<>>, <<"UserData", "\n">> }

\* path.join(portableRoot, version): an empty segment is dropped
VersionDirOf(v) == IF v = "" THEN <<>> ELSE <<Nm(v)>>
UserDataDir == <<UserData>>

\* ------------------------------------------------------ files and archives
\* paths below C:\ungoogled-chromium-windows, as sequences of names
BuildDir == <<Nm("build")>>
SrcP == <<Nm("build"), Nm("src")>>
DownloadedZipP == <<Nm("build"), Nm("artifacts.zip")>>
SnapZipP == <<Nm("artifacts.zip")>>
FsPaths == {SrcP, DownloadedZipP, SnapZipP, <<Nm("src")>>}

\* a file or tree: n counts the driver runs that went into a source tree,
\* whole is false for what an archiver with a non-zero exit code wrote
NoFile == [kind |-> "none", top |-> <<>>, n |-> 0, whole |-> TRUE]
\* 7z a archive dir: the archive holds dir under its last name
Zip7(path, t, w) == [kind |-> "zip", top |-> path[Len(path)], n |-> t.n, whole |-> (t.whole /\ w)]
\* 7z x archive -odir -y: the top entry of the archive lands in dir
Unzip7(f, dir, z) ==
    IF z.kind = "zip" /\ (dir \o <<z.top>>) \in DOMAIN f
      THEN [f EXCEPT ![dir \o <<z.top>>] = [kind |-> "tree", top |-> <<>>, n |-> z.n, whole |-> z.whole]]
      ELSE f

NoBlob == [file |-> <<>>, data |-> NoFile]
\* an artifact that was there before the invocation
OldBlob(name) ==
    IF name \in SnapshotNames
      THEN [file |-> SnapZipP, data |-> Zip7(SrcP, [NoFile EXCEPT !.kind = "tree", !.n = 1], TRUE)]
      ELSE [file |-> <<ArchiveName("100.0.1", "x64")>>, data |-> Zip7(<<PortableRootName("x64")>>, NoFile, TRUE)]

\* ------------------------------------------------- what the build leaves
Pool == << Nm("chrome.dll"), Nm("Locales"), Nm("resources.pak"), Nm("icudtl.dat") >>
FirstK(k) == {Pool[j] : j \in 1..k}
Leftovers == { {}, {PortableRootName("prev")}, {PortableRootName("x86")} }
OutDirs == <<"Default", "Release">>
ExePlacements == { {}, {"Default"}, {"Release"}, {"Default", "Release"}, {"Other"} }

\* finished, from_artifact, x86, arm: the four inputs (lines 137-140)
\* pc: the await at which run() stands; out: the output 'finished'
\*   ("unset" until core.setOutput); failed: core.setFailed was called
\* store: artifact name -> "none", "old" (there before the invocation) or
\*   "new" (uploaded by it); a rejected call leaves the store as it was
\* calls: the <<operation, name>> pairs sent to the artifact client
\* resumeOps, resumeFailed: resume operations started, and whether one failed
\* stages: the stages entered so far
\* args, retCode: the driver's arguments and exit code (NotRun before)
\* exeAt: the out directories that hold chrome.exe; buildOutDir, globUsed:
\*   the directory found and whether the glob search was consulted
\* outDir: the entries of the build output directory
\* arch, version, pkg: the Packager's tag, version and the paths below
\*   portableRoot; archived, archiveName: what 7z packed, under which name
\* error: the message given to core.setFailed; readme: the interpolated
\*   parts of README.txt
\* queryFailed, copyFailed, pkgZipCode, snapZipCode: whether the version
\*   query and the copy loop were rejected, and the exit codes of the
\*   Packager's and the Snapshot Manager's 7z (NotRun before)
\* fs: what the working directory C:\ungoogled-chromium-windows holds at
\*   the paths the action reads and writes; blob: the file each artifact
\*   holds
\* second: this is the second of two successive invocations; first: what
\*   the first one did; carried: what the first one left in its build
\*   output directory
\* otherSel, otherCalls: the inputs x86 and arm of an invocation running
\*   at the same time, and the artifact names it has used
\* i: the loop variable; attempts, uploaded, delOk, prior: uploads made,
\*   whether one resolved, whether a delete resolved, and what the store
\*   held under the name when the loop began
VARIABLES finished, from_artifact, x86, arm,
          pc, out, failed, store, calls, resumeOps, resumeFailed, stages,
          args, retCode, exeAt, buildOutDir, globUsed, outDir,
          arch, version, pkg, archived, archiveName,
          i, attempts, uploaded, delOk, prior,
          error, readme, queryFailed, copyFailed, pkgZipCode, snapZipCode,
          fs, blob, second, first, carried, otherSel, otherCalls

inputs == <<finished, from_artifact, x86, arm>>
ctl == <<pc, out, failed, error>>
resume == <<resumeOps, resumeFailed>>
build == <<args, retCode, exeAt, outDir>>
located == <<buildOutDir, globUsed>>
pack == <<arch, version, pkg, archived, archiveName>>
loop == <<i, attempts, uploaded, delOk, prior>>
hist == <<queryFailed, copyFailed, pkgZipCode, snapZipCode>>
disk == <<fs, blob>>
runs == <<second, first, carried>>
oth == <<otherSel, otherCalls>>
vars == <<inputs, ctl, store, calls, resume, stages, build, located, pack, loop, readme, hist, disk, runs, oth>>

\* nothing known of an earlier invocation
NoFirst == [retCode |-> NotRun, uploaded |-> FALSE, snap |-> NoFile, tree |-> NoFile,
            snapZipCode |-> NotRun, pkgZipCode |-> NotRun, archived |-> {}, archiveName |-> <<>>]
NoCarried == [dir |-> "", entries |-> {}]

InitStores == { {}, SnapshotNames, FinalNames, Names }

InitBase ==
    /\ finished \in BOOLEAN /\ from_artifact \in BOOLEAN
    /\ x86 \in BOOLEAN /\ arm \in BOOLEAN
    /\ pc = "start" /\ out = "unset" /\ failed = FALSE
    /\ \E S \in InitStores : store = [n \in Names |-> IF n \in S THEN "old" ELSE "none"]
    /\ calls = {} /\ resumeOps = {} /\ resumeFailed = FALSE /\ stages = {}
    /\ args = <<>> /\ retCode = NotRun /\ exeAt = {} /\ outDir = {}
    /\ buildOutDir = "" /\ globUsed = FALSE
    /\ arch = "" /\ version = "" /\ pkg = {} /\ archived = {} /\ archiveName = <<>>
    /\ i = 0 /\ attempts = 0 /\ uploaded = FALSE /\ delOk = FALSE /\ prior = "none"
    /\ error = "" /\ readme = <<>>
    /\ queryFailed = FALSE /\ copyFailed = FALSE /\ pkgZipCode = NotRun /\ snapZipCode = NotRun
    /\ fs = [p \in FsPaths |-> NoFile]
    /\ blob = [n \in Names |-> IF store[n] = "old" THEN OldBlob(n) ELSE NoBlob]
    /\ second = FALSE /\ first = NoFirst /\ carried = NoCarried
    /\ otherCalls = {}

\* one invocation, nothing running beside it
Init == InitBase /\ otherSel = <<x86, arm>>

\* run().catch(err => core.setFailed(err.message))
Throw(msg) == pc' = "failed" /\ failed' = TRUE /\ out' = out /\ error' = msg

\* a rejected call of a library or of a tool
Abort == Throw("rejected")

Goto(p) == pc' = p /\ UNCHANGED <<out, failed, error>>

\* ------------------------------------------------------------ run(): entry
\* an entry that goes on whatever the input
EarlyReturnNever(fin) == FALSE
\* lines 142-145
EarlyReturn(fin) == fin

\* lines 137-148
Start ==
    /\ pc = "start"
    /\ IF EarlyReturn(finished)
         THEN pc' = "done" /\ out' = "true" /\ UNCHANGED <<failed, error>>
         ELSE Goto(IF from_artifact THEN "getArtifact" ELSE "pip")
    /\ UNCHANGED <<inputs, store, calls, resume, stages, build, located, pack, loop, readme, hist, disk, runs, oth>>

\* --------------------------------------------------------- Resume Manager
ResumeStep(op, ok, next) ==
    /\ resumeOps' = resumeOps \cup {op}
    /\ stages' = stages \cup {"resume"}
    /\ IF ok THEN Goto(next) /\ resumeFailed' = resumeFailed
             ELSE Abort /\ resumeFailed' = TRUE

\* line 151: getArtifact rejects when no artifact has the name
GetArtifact ==
    /\ pc = "getArtifact"
    /\ \E ok \in BOOLEAN :
         /\ ok => store[ArtifactName(x86, arm)] # "none"
         /\ ResumeStep("get", ok, "download")
    /\ calls' = calls \cup {<<"get", ArtifactName(x86, arm)>>}
    /\ UNCHANGED <<inputs, store, build, located, pack, loop, readme, hist, disk, runs, oth>>

\* downloadArtifact(id, {path}): the artifact's file is written below path
Downloaded(f, dir, b) ==
    IF (dir \o b.file) \in DOMAIN f THEN [f EXCEPT ![dir \o b.file] = b.data] ELSE f

\* line 152
DownloadArtifact ==
    /\ pc = "download"
    /\ \E ok \in BOOLEAN :
         /\ ResumeStep("download", ok, "extract")
         /\ fs' = IF ok THEN Downloaded(fs, BuildDir, blob[ArtifactName(x86, arm)]) ELSE fs
    /\ UNCHANGED <<inputs, store, calls, build, located, pack, loop, readme, hist, blob, runs, oth>>

\* the same call with ignoreReturnCode: true
ExecOkLax(code) == TRUE
\* exec.exec without ignoreReturnCode rejects on a non-zero exit code
ExecOk(code) == code = 0

\* an extraction into the working directory itself
ExtractDirRoot == <<>>
\* line 154: -oC:\ungoogled-chromium-windows\build
ExtractDir == BuildDir

\* lines 153-154: 7z x exits 0 only on a readable archive
Extract ==
    /\ pc = "extract"
    /\ \E code \in ExitCodes :
         /\ code = 0 => fs[DownloadedZipP].kind = "zip"
         /\ resumeOps' = resumeOps \cup {"extract"}
         /\ stages' = stages \cup {"resume"}
         /\ resumeFailed' = (code # 0)
         /\ fs' = IF code = 0 THEN Unzip7(fs, ExtractDir, fs[DownloadedZipP]) ELSE fs
         /\ IF ExecOk(code) THEN Goto("rmzip") ELSE Abort
    /\ UNCHANGED <<inputs, store, calls, build, located, pack, loop, readme, hist, blob, runs, oth>>

\* line 155
RemoveZip ==
    /\ pc = "rmzip"
    /\ \E ok \in BOOLEAN :
         /\ ResumeStep("rmzip", ok, "pip")
         /\ fs' = IF ok THEN [fs EXCEPT ![DownloadedZipP] = NoFile] ELSE fs
    /\ UNCHANGED <<inputs, store, calls, build, located, pack, loop, readme, hist, blob, runs, oth>>

\* ------------------------------------------------- Build Driver Invocation
\* the same call without ignoreReturnCode
PipStrict(code) == IF code = 0 THEN "build" ELSE "failed"
\* ignoreReturnCode: true, the exit code is dropped
AfterPip(code) == "build"

\* lines 158-166
PipInstall ==
    /\ pc = "pip"
    /\ \E code \in ExitCodes :
         /\ pc' = AfterPip(code)
         /\ failed' = (pc' = "failed")
         /\ UNCHANGED <<out, error>>
    /\ args' = BuildArgs(x86, arm)
    /\ stages' = stages \cup {"pip"}
    /\ UNCHANGED <<inputs, store, calls, resume, retCode, exeAt, outDir, located, pack, loop, readme, hist, disk, runs, oth>>

\* line 171: retCode === 0
Branch(code) == IF code = 0 THEN "packager" ELSE "snapshot"

\* the output left for the end of the branch
OutputOnSuccessLate(prev) == prev
\* line 172
OutputOnSuccess(prev) == "true"

\* what an earlier, interrupted Packager run left in its package directory
StaleTree == {<<ChromeExe>>, <<ReadmeTxt>>}

\* lines 167-172 and 228: the driver returns its exit code; on 0 it has
\* left chrome.exe and the other entries in some out directories
BuildDriver ==
    /\ pc = "build"
    /\ \E code \in ExitCodes :
         /\ retCode' = code
         /\ fs' = [fs EXCEPT ![SrcP] = [kind |-> "tree", top |-> <<>>, n |-> @.n + 1, whole |-> @.whole]]
         /\ stages' = stages \cup {"build", Branch(code)}
         /\ IF Branch(code) = "packager"
              THEN /\ out' = OutputOnSuccess(out) /\ pc' = "locate" /\ UNCHANGED <<failed, error>>
                   /\ \E pl \in ExePlacements, k \in 0..MaxOther, lo \in Leftovers :
                        /\ exeAt' = pl
                        /\ outDir' = IF pl = {} THEN outDir ELSE outDir \cup {ChromeExe} \cup FirstK(k) \cup lo
                        /\ pkg' = IF pl # {} /\ PortableRootName(ArchTag(x86, arm)) \in lo
                                     THEN StaleTree ELSE pkg
              ELSE /\ Goto("snapCompress")
                   /\ UNCHANGED <<exeAt, outDir, pkg>>
    /\ UNCHANGED <<inputs, store, calls, resume, args, located, arch, version, archived, archiveName, loop, readme, hist, blob, runs, oth>>

NotFoundMsg == "Could not find build output directory with chrome.exe"

\* a probe loop without the break: the last candidate that matches
RECURSIVE LastCandidate(_, _)
LastCandidate(paths, present) ==
    IF paths = <<>> THEN ""
    ELSE IF paths[Len(paths)] \in present THEN paths[Len(paths)]
    ELSE LastCandidate(SubSeq(paths, 1, Len(paths) - 1), present)

\* lines 175-205
RECURSIVE FirstCandidate(_, _)
FirstCandidate(paths, present) ==
    IF paths = <<>> THEN ""
    ELSE IF Head(paths) \in present THEN Head(paths)
    ELSE FirstCandidate(Tail(paths), present)

Locate ==
    /\ pc = "locate"
    /\ LET fixed == FirstCandidate(OutDirs, exeAt)
           globbed == exeAt \ {OutDirs[j] : j \in 1..Len(OutDirs)}
       IN IF fixed # ""
            THEN buildOutDir' = fixed /\ globUsed' = FALSE /\ Goto("version")
            ELSE /\ globUsed' = TRUE
                 /\ IF globbed # {}
                      THEN (\E d \in globbed : buildOutDir' = d) /\ Goto("version")
                      ELSE buildOutDir' = "" /\ Throw(NotFoundMsg)
    /\ outDir' = outDir \cup (IF buildOutDir' = carried.dir THEN carried.entries ELSE {})
    /\ UNCHANGED <<inputs, store, calls, resume, stages, args, retCode, exeAt, pack, loop, readme, hist, disk, runs, oth>>

\* ---------------------------------------- Packager: createPortableStructure
PortableRoot == PortableRootName(arch)
VersionDir == VersionDirOf(version)
Children(tree, dir) == {p \in tree : Len(p) = Len(dir) + 1 /\ SubSeq(p, 1, Len(dir)) = dir}

\* a catch block that leaves the version as initialised at line 16
FallbackEmpty == ""
\* line 25
Fallback == "unknown"

\* lines 12-28: a rejected query yields 'unknown', otherwise stdout.trim()
VersionQuery ==
    /\ pc = "version"
    /\ arch' = ArchTag(x86, arm)
    /\ \/ version' = Fallback /\ queryFailed' = TRUE
       \/ \E so \in Stdouts : version' = Trim(so) /\ queryFailed' = FALSE
    /\ Goto("mkdirs")
    /\ UNCHANGED <<inputs, store, calls, resume, stages, build, located, pkg, archived, archiveName, loop, readme, copyFailed, pkgZipCode, snapZipCode, disk, runs, oth>>

\* io.mkdirP creates the directory and its missing parents
MkdirP(tree, dir) == IF dir = <<>> THEN tree ELSE tree \cup {dir}

\* lines 30-35
MakeDirs ==
    /\ pc = "mkdirs"
    /\ pkg' = MkdirP(MkdirP(pkg, VersionDir), UserDataDir)
    /\ outDir' = outDir \cup {PortableRoot}
    /\ Goto("copy")
    /\ UNCHANGED <<inputs, store, calls, resume, stages, args, retCode, exeAt, located, arch, version, archived, archiveName, loop, readme, hist, disk, runs, oth>>

\* a copy loop that also leaves out the portable archives
CopyTargetsSkipZip(file, vdir) ==
    IF file = ChromeExe THEN {<<ChromeExe>>}
    ELSE IF StartsWithPortable(file) \/ file[Len(file)] = "-portable.zip" THEN {}
    ELSE {vdir \o <<file>>}
\* the copy loop without the branch of lines 48-50
CopyTargetsNoSkip(file, vdir) == IF file = ChromeExe THEN {<<ChromeExe>>} ELSE {vdir \o <<file>>}
\* lines 45-58: where one directory entry is copied to, {} when skipped
CopyTargets(file, vdir) ==
    IF file = ChromeExe THEN {<<ChromeExe>>}
    ELSE IF StartsWithPortable(file) THEN {}
    ELSE {vdir \o <<file>>}

\* a copy loop that swallows the rejection
CopyOkLax(ok) == TRUE
\* lines 43-58: the awaits are not in a try block
CopyOk(ok) == ok

\* lines 38-60: readdir, then the copy loop; fs.stat or io.cp may reject
CopyFiles ==
    /\ pc = "copy"
    /\ \E ok \in BOOLEAN :
         /\ copyFailed' = ~ok
         /\ IF CopyOk(ok)
              THEN /\ pkg' = pkg \cup UNION {CopyTargets(f, VersionDir) : f \in outDir}
                   /\ Goto("meta")
              ELSE pkg' = pkg /\ Abort
    /\ UNCHANGED <<inputs, store, calls, resume, stages, build, located, arch, version, archived, archiveName, loop, readme, queryFailed, pkgZipCode, snapZipCode, disk, runs, oth>>

\* the generated files without the placeholder
MetaFilesNoKeep == {<<ReadmeTxt>>, <<GitIgnore>>}
\* lines 106, 113, 116
MetaFiles == {<<ReadmeTxt>>, <<GitIgnore>>, UserDataDir \o <<GitKeep>>}

\* lines 63-105: the interpolations of the template, in order
Readme(v, a) == <<"Ungoogled Chromium Portable ", v, " (", a, ")", "chromePortable-", a, "/", v, "/", "Version ", v, " files are in the ", v, " subfolder">>

\* lines 63-116
WriteMeta ==
    /\ pc = "meta"
    /\ pkg' = pkg \cup MetaFiles
    /\ readme' = Readme(version, arch)
    /\ Goto("compress")
    /\ UNCHANGED <<inputs, store, calls, resume, stages, build, located, arch, version, archived, archiveName, loop, hist, disk, runs, oth>>

\* lines 119-125: 7z a, rejected on a non-zero exit code
Compress ==
    /\ pc = "compress"
    /\ \E code \in ExitCodes :
         /\ pkgZipCode' = code
         /\ IF ExecOk(code)
              THEN /\ archived' = pkg
                   /\ archiveName' = ArchiveName(version, arch)
                   /\ outDir' = outDir \cup {ArchiveName(version, arch)}
                   /\ Goto("cleanup")
              ELSE UNCHANGED <<archived, archiveName, outDir>> /\ Abort
    /\ UNCHANGED <<inputs, store, calls, resume, stages, args, retCode, exeAt, located, arch, version, pkg, loop, readme, queryFailed, copyFailed, snapZipCode, disk, runs, oth>>

\* lines 128-131 and 208-211
Cleanup ==
    /\ pc = "cleanup"
    /\ pkg' = {}
    /\ outDir' = outDir \ {PortableRoot}
    /\ Goto("pubDelete")
    /\ UNCHANGED <<inputs, store, calls, resume, stages, args, retCode, exeAt, located, arch, version, archived, archiveName, loop, readme, hist, disk, runs, oth>>

\* ------------------------------------------------------ Artifact Publisher
\* a delete that resolves without removing anything
DeletedKept(st, name) == st
\* deleteArtifact(name) that resolves
Deleted(st, name) == [st EXCEPT ![name] = "none"]

\* lines 213-217 and 233-237: a rejected delete is swallowed; deleting a
\* name that has no artifact rejects
DeleteStep(name, next) ==
    /\ \E ok \in BOOLEAN :
         /\ ok => store[name] # "none"
         /\ store' = IF ok THEN Deleted(store, name) ELSE store
         /\ blob' = IF store'[name] = "none" THEN [blob EXCEPT ![name] = NoBlob] ELSE blob
         /\ delOk' = (delOk \/ ok)
    /\ prior' = IF i = 0 THEN store[name] ELSE prior
    /\ calls' = calls \cup {<<"delete", name>>}
    /\ Goto(next)
    /\ UNCHANGED <<inputs, resume, stages, build, located, pack, i, attempts, uploaded, readme, hist, fs, runs, oth>>

\* the loop condition written i <= 5
LoopAgainOffByOne(n) == n + 1 <= MaxAttempts
\* lines 212 and 232: ++i, then i < 5
LoopAgain(n) == n + 1 < MaxAttempts

\* a loop that rethrows the last rejection
AfterUploadFailureThrow(n, again, exit) == IF LoopAgain(n) THEN again ELSE "failed"
\* lines 223-226 and 242-245: the rejection is logged, the loop goes on
AfterUploadFailure(n, again, exit) == IF LoopAgain(n) THEN again ELSE exit

\* lines 218-226 and 238-245: the store refuses a name that is taken, and
\* the upload of a file that is not there is rejected; b is the file, under
\* its path relative to the rootDirectory argument
UploadStep(name, b, again, exit) ==
    /\ \E ok \in BOOLEAN :
         /\ ok => store[name] = "none" /\ b.data.kind # "none"
         /\ blob' = IF ok THEN [blob EXCEPT ![name] = b] ELSE blob
         /\ IF ok
              THEN /\ store' = [store EXCEPT ![name] = "new"]
                   /\ uploaded' = TRUE /\ i' = i
                   /\ Goto(exit)
              ELSE /\ store' = store /\ uploaded' = uploaded
                   /\ i' = i + 1
                   /\ pc' = AfterUploadFailure(i, again, exit)
                   /\ failed' = (pc' = "failed")
                   /\ UNCHANGED <<out, error>>
    /\ attempts' = attempts + 1
    /\ calls' = calls \cup {<<"upload", name>>}
    /\ UNCHANGED <<inputs, resume, stages, build, located, pack, delOk, prior, readme, hist, fs, runs, oth>>

PublishDelete == pc = "pubDelete" /\ DeleteStep(FinalArtifactName(x86, arm), "pubUpload")
\* lines 219-220: the archive, relative to path.dirname(portableArchive)
PortableBlob == [file |-> <<archiveName>>, data |-> Zip7(<<PortableRoot>>, NoFile, TRUE)]
\* lines 239-240: artifacts.zip, relative to the working directory
SnapshotBlob == [file |-> SnapZipP, data |-> fs[SnapZipP]]

PublishUpload == pc = "pubUpload" /\ UploadStep(FinalArtifactName(x86, arm), PortableBlob, "pubDelete", "done")

\* -------------------------------------------------------- Snapshot Manager
\* lines 229-231: ignoreReturnCode: true
SnapshotCompress ==
    /\ pc = "snapCompress"
    /\ \E code \in ExitCodes :
         /\ snapZipCode' = code
         /\ \/ fs' = [fs EXCEPT ![SnapZipP] = Zip7(SrcP, fs[SrcP], code = 0)]
            \/ code # 0 /\ fs' = fs
         /\ Goto("snapDelete")
    /\ UNCHANGED <<inputs, store, calls, resume, stages, build, located, pack, loop, readme, queryFailed, copyFailed, pkgZipCode, blob, runs, oth>>

SnapshotDelete == pc = "snapDelete" /\ DeleteStep(ArtifactName(x86, arm), "snapUpload")
SnapshotUpload == pc = "snapUpload" /\ UploadStep(ArtifactName(x86, arm), SnapshotBlob, "snapDelete", "snapOutput")

\* line 247
SnapshotOutput ==
    /\ pc = "snapOutput"
    /\ out' = "false" /\ pc' = "done" /\ UNCHANGED <<failed, error>>
    /\ UNCHANGED <<inputs, store, calls, resume, stages, build, located, pack, loop, readme, hist, disk, runs, oth>>

Next ==
    \/ Start
    \/ GetArtifact \/ DownloadArtifact \/ Extract \/ RemoveZip
    \/ PipInstall \/ BuildDriver \/ Locate
    \/ VersionQuery \/ MakeDirs \/ CopyFiles \/ WriteMeta \/ Compress \/ Cleanup
    \/ PublishDelete \/ PublishUpload
    \/ SnapshotCompress \/ SnapshotDelete \/ SnapshotUpload \/ SnapshotOutput

Spec == Init /\ [][Next]_vars

\* ------------------------------------------- two successive invocations
\* The pipeline calls the action again after an invocation that returned
\* (a failed step ends the job), for the same architecture, either on the
\* same working directory or on a fresh one; the artifacts stay.
Restart ==
    /\ pc = "done" /\ ~second
    /\ second' = TRUE
    /\ finished' \in BOOLEAN /\ from_artifact' \in BOOLEAN
    /\ UNCHANGED <<x86, arm, blob, oth>>
    /\ store' = [n \in Names |-> IF store[n] = "new" THEN "old" ELSE store[n]]
    /\ \E fresh \in BOOLEAN :
         /\ fs' = IF fresh THEN [p \in FsPaths |-> NoFile] ELSE fs
         /\ carried' = IF fresh THEN NoCarried ELSE [dir |-> buildOutDir, entries |-> outDir]
         /\ first' = [retCode |-> retCode, uploaded |-> uploaded,
                      snap |-> blob[ArtifactName(x86, arm)].data, tree |-> fs[SrcP],
                      snapZipCode |-> snapZipCode, pkgZipCode |-> pkgZipCode,
                      archived |-> IF fresh THEN {} ELSE archived,
                      archiveName |-> IF fresh THEN <<>> ELSE archiveName]
    /\ pc' = "start" /\ out' = "unset" /\ failed' = FALSE /\ error' = ""
    /\ calls' = {} /\ resumeOps' = {} /\ resumeFailed' = FALSE /\ stages' = {}
    /\ args' = <<>> /\ retCode' = NotRun /\ exeAt' = {} /\ outDir' = {}
    /\ buildOutDir' = "" /\ globUsed' = FALSE
    /\ arch' = "" /\ version' = "" /\ pkg' = {} /\ archived' = {} /\ archiveName' = <<>>
    /\ i' = 0 /\ attempts' = 0 /\ uploaded' = FALSE /\ delOk' = FALSE /\ prior' = "none"
    /\ readme' = <<>>
    /\ queryFailed' = FALSE /\ copyFailed' = FALSE /\ pkgZipCode' = NotRun /\ snapZipCode' = NotRun

\* the first invocation of a pipeline run: nothing is built, no artifact
\* is in the store
InitTwo == Init /\ ~finished /\ \A n \in Names : store[n] = "none"

NextTwo == Next \/ Restart

SpecTwo == InitTwo /\ [][NextTwo]_vars

Terminated == pc \in {"done", "failed"}

\* --------------------------------------------- two concurrent invocations
\* A second invocation of the action runs at the same time for another
\* architecture selection, against the same artifact store.  Of that
\* invocation only its calls of the artifact client are kept (lines 151,
\* 214, 219, 234 and 239), in any order and number.
OtherNames == {ArtifactName(otherSel[1], otherSel[2]), FinalArtifactName(otherSel[1], otherSel[2])}

\* line 151
OtherGet ==
    /\ store[ArtifactName(otherSel[1], otherSel[2])] # "none"
    /\ ArtifactName(otherSel[1], otherSel[2]) \notin otherCalls
    /\ otherCalls' = otherCalls \cup {ArtifactName(otherSel[1], otherSel[2])}
    /\ UNCHANGED <<inputs, ctl, store, calls, resume, stages, build, located, pack, loop, readme, hist, disk, runs, otherSel>>

\* lines 214 and 234
OtherDelete ==
    /\ \E n \in OtherNames :
         /\ store[n] # "none"
         /\ store' = Deleted(store, n)
         /\ blob' = IF store'[n] = "none" THEN [blob EXCEPT ![n] = NoBlob] ELSE blob
         /\ otherCalls' = otherCalls \cup {n}
    /\ UNCHANGED <<inputs, ctl, calls, resume, stages, build, located, pack, loop, readme, hist, fs, runs, otherSel>>

\* lines 219 and 239
OtherUpload ==
    /\ \E n \in OtherNames :
         /\ store[n] = "none"
         /\ store' = [store EXCEPT ![n] = "other"]
         /\ blob' = [blob EXCEPT ![n] = OldBlob(n)]
         /\ otherCalls' = otherCalls \cup {n}
    /\ UNCHANGED <<inputs, ctl, calls, resume, stages, build, located, pack, loop, readme, hist, fs, runs, otherSel>>

Selections == { <<FALSE, FALSE>>, <<TRUE, FALSE>>, <<FALSE, TRUE>> }

InitConc ==
    /\ InitBase /\ ~finished
    /\ <<x86, arm>> \in Selections
    /\ otherSel \in Selections \ {<<x86, arm>>}
    /\ \/ \A n \in Names : store[n] = "none"
       \/ \A n \in Names : store[n] = "old"

NextConc == Next \/ OtherGet \/ OtherDelete \/ OtherUpload

SpecConc == InitConc /\ [][NextConc]_vars

\* ------------------------------------------------------------- properties
Range(seq) == {seq[j] : j \in 1..Len(seq)}
PublishName == IF retCode = 0 THEN FinalArtifactName(x86, arm) ELSE ArtifactName(x86, arm)
InLoop == attempts > 0

\* C1: in both publish loops at most 5 uploads are attempted, none after
\* the first successful one, and when all 5 fail the invocation is not
\* marked failed and ends with its finished output reported.
C1_State ==
    /\ attempts <= 5
    /\ InLoop => pc # "failed" /\ ~failed
    /\ Terminated /\ InLoop =>
         /\ pc = "done"
         /\ out = (IF retCode = 0 THEN "true" ELSE "false")
         /\ ~uploaded => attempts = 5
C1_RetryBound == []C1_State /\ [][uploaded => attempts' = attempts]_vars

C1_Witness ==
    pc = "done" /\ retCode = 0 /\ attempts = 5 /\ ~uploaded /\ out = "true" /\ ~failed

\* C2 as stated: with a prior artifact under the published name, a publish
\* with a successful upload leaves the new artifact in place of the old
\* one, and a publish whose 5 uploads all fail leaves no artifact under
\* the name, whatever the delete calls did.
C2_Original ==
    pc = "done" /\ InLoop /\ prior = "old" =>
        /\ ~failed
        /\ uploaded => store[PublishName] = "new"
        /\ ~uploaded => store[PublishName] = "none"

\* C2 amended: the prior artifact is gone after the publish exactly when
\* one of the delete calls succeeded; when every delete and every upload
\* failed it is still there, untouched.  A successful upload always leaves
\* the new artifact and not the old one, and the publish never throws.
C2_DeleteThenCreate ==
    pc = "done" /\ InLoop /\ prior = "old" =>
        /\ ~failed
        /\ uploaded => store[PublishName] = "new" /\ delOk
        /\ ~uploaded => /\ attempts = 5
                        /\ store[PublishName] = (IF delOk THEN "none" ELSE "old")

C2_Witness ==
    /\ pc = "done" /\ prior = "old" /\ attempts = 5 /\ ~uploaded /\ delOk
    /\ store[PublishName] = "none"

\* C3: once the build driver has returned a non-zero exit code the output
\* finished is never true, the invocation is not aborted, and it ends with
\* finished=false, whatever the compressor, the deletes and the uploads do.
C3_SnapshotOutput ==
    retCode \notin {0, NotRun} =>
        /\ out # "true"
        /\ pc # "failed" /\ ~failed
        /\ pc = "done" => out = "false"

C3_Witness ==
    pc = "done" /\ retCode = 1 /\ attempts = 5 /\ ~uploaded /\ out = "false"

PackagerPcs == {"locate", "version", "mkdirs", "copy", "meta", "compress", "cleanup", "pubDelete", "pubUpload"}
SnapshotPcs == {"snapCompress", "snapDelete", "snapUpload", "snapOutput"}

\* C4: after the build driver has returned, exactly one of the Packager
\* path and the Snapshot path has been entered, the Packager path iff the
\* exit code is 0; the dependency installation ran before the driver and
\* whatever its exit code the driver is the next step.
C4_State ==
    /\ retCode # NotRun =>
         /\ ~finished /\ "pip" \in stages /\ "build" \in stages
         /\ ("packager" \in stages) <=> (retCode = 0)
         /\ ("snapshot" \in stages) <=> (retCode # 0)
    /\ pc \in PackagerPcs => retCode = 0 /\ "packager" \in stages
    /\ pc \in SnapshotPcs => retCode \notin {0, NotRun} /\ "snapshot" \in stages
    /\ pc = "build" => "pip" \in stages /\ retCode = NotRun
C4_Branch == []C4_State /\ [][pc = "pip" => pc' = "build" /\ ~failed']_vars

C4_Witness ==
    /\ from_artifact /\ resumeOps = {"get", "download", "extract", "rmzip"}
    /\ retCode = 1 /\ pc = "snapCompress"

ArtifactWrites == {c \in calls : c[1] \in {"delete", "upload"}}

\* C5: the resume operations are performed only when from_artifact is
\* true; when one of them fails the invocation is aborted and marked
\* failed, nothing further is done (no retry, no dependency install, no
\* build, no delete or upload) and no finished output is set.
C5_State ==
    /\ resumeOps # {} => from_artifact /\ ~finished
    /\ ~from_artifact => <<"get", ArtifactName(x86, arm)>> \notin calls
    /\ resumeFailed =>
         /\ pc = "failed" /\ failed
         /\ stages = {"resume"} /\ retCode = NotRun /\ args = <<>>
         /\ ArtifactWrites = {} /\ attempts = 0
         /\ out = "unset"
C5_ResumeFatal == []C5_State /\ [][~resumeFailed]_vars

C5_Witness ==
    resumeFailed /\ resumeOps = {"get", "download", "extract"} /\ pc = "failed" /\ failed

Derived(sel) == <<ArchTag(sel[1], sel[2]), ArtifactName(sel[1], sel[2]), FinalArtifactName(sel[1], sel[2])>>
Expected(sel) ==
    IF sel = <<TRUE, FALSE>> THEN <<"x86", "build-artifact-x86", "chromium-x86">>
    ELSE IF sel = <<FALSE, TRUE>> THEN <<"arm64", "build-artifact-arm", "chromium-arm">>
    ELSE <<"x64", "build-artifact", "chromium">>

\* C6: for the selections default, x86 and arm the package tag, the
\* snapshot artifact name and the final artifact name the invocation uses
\* are x64/build-artifact/chromium, x86/build-artifact-x86/chromium-x86
\* and arm64/build-artifact-arm/chromium-arm, and no name derived for one
\* selection is derived for another.
C6_Names ==
    /\ <<x86, arm>> \in Selections =>
         /\ arch # "" => arch = Expected(<<x86, arm>>)[1]
         /\ \A c \in calls :
              c[2] = (IF c[1] = "get" \/ retCode # 0 THEN Expected(<<x86, arm>>)[2]
                                                      ELSE Expected(<<x86, arm>>)[3])
    /\ \A s1 \in Selections, s2 \in Selections :
         s1 # s2 => \A j \in 1..3, k \in 1..3 : Derived(s1)[j] # Derived(s2)[k]

C6_Witness ==
    /\ ~x86 /\ arm /\ arch = "arm64"
    /\ <<"upload", "chromium-arm">> \in calls /\ <<"get", "build-artifact-arm">> \in calls

NamesOf(x, a) == <<ArchTag(x, a), ArtifactName(x, a), FinalArtifactName(x, a)>>

\* C7 as stated: for every combination of x86 and arm the driver gets
\* --x86 exactly when the derived names are the x86 ones, --arm exactly
\* when they are the arm ones, and neither flag when they are the default
\* ones.
C7_FlagsMatchNames ==
    args # <<>> =>
        /\ ("--x86" \in Range(args)) <=> (NamesOf(x86, arm) = Expected(<<TRUE, FALSE>>))
        /\ ("--arm" \in Range(args)) <=> (NamesOf(x86, arm) = Expected(<<FALSE, TRUE>>))
        /\ (Range(args) \cap {"--x86", "--arm"} = {}) <=> (NamesOf(x86, arm) = Expected(<<FALSE, FALSE>>))

\* the build-output entries other than chrome.exe, while the package
\* directory stands in the build output directory
Others == outDir \ {ChromeExe, PortableRoot}
LastOf(p) == p[Len(p)]

\* C8 as stated: the assembled package holds chrome.exe at its root, each
\* other build-output entry exactly once and under the version
\* subdirectory, none of them at the root, the user-data directory, and
\* besides the generated files nothing else.
C8_PackageLayout ==
    pc = "compress" =>
        /\ <<ChromeExe>> \in pkg
        /\ UserDataDir \in pkg
        /\ \A f \in Others :
             /\ VersionDir \o <<f>> \in pkg
             /\ <<f>> \notin pkg
             /\ Cardinality({p \in pkg : LastOf(p) = f}) = 1
        /\ pkg \subseteq ({<<ChromeExe>>, VersionDir, UserDataDir} \cup MetaFiles
                           \cup {VersionDir \o <<f>> : f \in Others})

\* C9 as stated: the user-data directory has no entry when the package is
\* compressed.
C9_UserDataEmpty == pc = "compress" => Children(pkg, UserDataDir) = {}

\* C9 amended: when the package is compressed the user-data directory
\* holds the placeholder .gitkeep the Packager wrote, and any other entry
\* in it is a build-output entry the copy loop put there because the
\* version subdirectory is the user-data directory.
C9_UserDataPlaceholder ==
    /\ pc = "compress" =>
         /\ UserDataDir \o <<GitKeep>> \in pkg
         /\ \A p \in Children(pkg, UserDataDir) \ {UserDataDir \o <<GitKeep>>} :
              VersionDir = UserDataDir /\ LastOf(p) \in Others
    /\ archived # {} => UserDataDir \o <<GitKeep>> \in archived

C9_Witness ==
    /\ pc = "cleanup" /\ archived # {}
    /\ Children(archived, UserDataDir) = {UserDataDir \o <<GitKeep>>}
    /\ Children(archived, VersionDir) # {}

\* C10 as stated: whatever the version query yields, the version
\* subdirectory is a proper subdirectory of the package root other than
\* the user-data directory, chrome.exe is the only build-output entry at
\* the root and every other packaged build-output entry is under the
\* version subdirectory.
C10_VersionDirProper ==
    pc \in {"mkdirs", "copy", "meta", "compress"} =>
        /\ Len(VersionDir) = 1
        /\ VersionDir # UserDataDir
        /\ pc = "compress" =>
             /\ {f \in outDir : <<f>> \in pkg} = {ChromeExe}
             /\ \A p \in pkg : LastOf(p) \in Others => p = VersionDir \o <<LastOf(p)>>

NoPortableIn(tree) == \A p \in tree : \A j \in 1..Len(p) : ~StartsWithPortable(p[j])

\* C11: whatever chromePortable-* entries the build output directory
\* holds when it is listed (left by an earlier run, for this or another
\* architecture, or the package directory the current run has just made),
\* none of them is copied: no path of the package, at the root or under
\* the version subdirectory, has a chromePortable-* component.
C11_NoNesting == NoPortableIn(pkg) /\ NoPortableIn(archived)

C11_Witness ==
    /\ pc = "cleanup"
    /\ PortableRoot \in outDir
    /\ \E f \in outDir : StartsWithPortable(f) /\ f # PortableRoot
    /\ VersionDir \o <<Nm("chrome.dll")>> \in archived

\* C12: a rejected version query does not abort the Packager but gives the
\* version 'unknown'; the version subdirectory, every version slot of the
\* README and the archive file name carry one and the same version string,
\* which is 'unknown' after a rejected query.
C12_State ==
    /\ queryFailed => version = "unknown"
    /\ readme # <<>> =>
         /\ \A j \in {2, 9, 12, 14} : readme[j] = version
         /\ readme[4] = arch
         /\ pc = "compress" => VersionDirOf(readme[2]) \in pkg \cup {<<>>}
    /\ archiveName # <<>> =>
         /\ archiveName = <<"ungoogled-chromium-", readme[2], "-", arch, "-portable.zip">>
         /\ VersionDirOf(archiveName[2]) \in archived \cup {<<>>}
         /\ queryFailed => archiveName[2] = "unknown" /\ <<Nm("unknown")>> \in archived
C12_VersionConsistent == []C12_State /\ [][pc = "version" => pc' = "mkdirs" /\ ~failed']_vars

C12_Witness ==
    /\ queryFailed /\ pc = "cleanup"
    /\ archiveName = <<"ungoogled-chromium-", "unknown", "-", "x64", "-portable.zip">>
    /\ readme[2] = "unknown"

PastLocate == retCode = 0 /\ pc # "locate"
FixedPresent == exeAt \cap Range(OutDirs)

\* C14: when the build exits 0 and chrome.exe is in neither fixed
\* candidate directory nor found by the glob search, the invocation is
\* marked failed with the build-output-not-found message, the Packager
\* has not run and no artifact was deleted or uploaded; when a fixed
\* candidate has chrome.exe, the first such candidate (Default before
\* Release) is used and the glob search is not consulted.
C14_Locate ==
    /\ PastLocate /\ exeAt = {} =>
         /\ pc = "failed" /\ failed /\ error = NotFoundMsg
         /\ globUsed /\ buildOutDir = ""
         /\ arch = "" /\ pkg = {} /\ readme = <<>> /\ archiveName = <<>>
         /\ ArtifactWrites = {} /\ attempts = 0
    /\ PastLocate /\ FixedPresent # {} =>
         /\ ~globUsed
         /\ buildOutDir = (IF "Default" \in exeAt THEN "Default" ELSE "Release")
    /\ error = NotFoundMsg => retCode = 0 /\ exeAt = {}

C14_Witness ==
    pc = "failed" /\ failed /\ error = NotFoundMsg /\ retCode = 0 /\ globUsed

\* C15: in the Packager a rejected copy or a non-zero exit code of 7z ends
\* the invocation marked failed, with no delete or upload of the final
\* artifact attempted; in the Snapshot path a non-zero exit code of 7z is
\* ignored and the snapshot upload is still attempted.
C15_Fatal ==
    /\ (copyFailed \/ pkgZipCode \notin {0, NotRun}) =>
         /\ pc = "failed" /\ failed
         /\ ArtifactWrites = {} /\ attempts = 0
    /\ snapZipCode \notin {0, NotRun} =>
         /\ pc # "failed" /\ ~failed
         /\ pc \in {"snapOutput", "done"} => <<"upload", ArtifactName(x86, arm)>> \in calls

C15_Witness ==
    pc = "failed" /\ failed /\ copyFailed /\ retCode = 0 /\ pkg # {}

\* C16: with the input finished = true the invocation sets the output
\* finished=true and returns; it calls no artifact operation and starts no
\* resume, dependency install, build, packaging or snapshot, whatever
\* from_artifact, x86 and arm are.
C16_State ==
    finished =>
        /\ pc \in {"start", "done"} /\ ~failed
        /\ pc = "done" => out = "true"
        /\ calls = {} /\ resumeOps = {} /\ stages = {} /\ attempts = 0
        /\ args = <<>> /\ retCode = NotRun
        /\ arch = "" /\ pkg = {} /\ archived = {} /\ outDir = {}
        /\ pkgZipCode = NotRun /\ snapZipCode = NotRun
C16_FinishedNoop == []C16_State /\ [][finished => store' = store]_vars

C16_Witness ==
    finished /\ from_artifact /\ x86 /\ arm /\ pc = "done" /\ out = "true"

\* C17: once the build driver has returned 0 the output finished is true,
\* already while the build output directory is being located, and so in
\* every terminal state of the branch, the failed ones included.
C17_FinishedEarly == retCode = 0 => out = "true"

C17_Witness ==
    /\ pc = "failed" /\ failed /\ retCode = 0 /\ out = "true"
    /\ pkgZipCode = 1 /\ ArtifactWrites = {}

AllResumeOps == {"get", "download", "extract", "rmzip"}
\* the first invocation ended with a non-zero build exit code and an
\* uploaded snapshot, and this one is asked to resume
SnapshotHandedOver ==
    /\ second /\ first.retCode \notin {0, NotRun} /\ first.uploaded
    /\ ~finished /\ from_artifact

\* C13: after an invocation with a non-zero build exit code whose snapshot
\* upload succeeded, the next invocation for the same architecture with
\* finished=false and from_artifact=true finds the artifact under its
\* snapshot name, and when its resume has gone through the tree that was
\* archived is at build\src and build\artifacts.zip is gone, the build
\* driver not yet started.
C13_Resume ==
    SnapshotHandedOver =>
        /\ pc = "getArtifact" =>
             /\ store[ArtifactName(x86, arm)] = "old"
             /\ blob[ArtifactName(x86, arm)] = [file |-> SnapZipP, data |-> first.snap]
             /\ first.snap.kind = "zip"
        /\ pc \in {"pip", "build"} =>
             /\ resumeOps = AllResumeOps /\ retCode = NotRun
             /\ fs[SrcP] = [kind |-> "tree", top |-> <<>>, n |-> first.snap.n, whole |-> first.snap.whole]
             /\ first.snapZipCode = 0 => fs[SrcP] = first.tree
             /\ fs[DownloadedZipP] = NoFile
        /\ retCode # NotRun => resumeOps = AllResumeOps

C13_Witness ==
    /\ SnapshotHandedOver /\ pc = "pip" /\ resumeOps = AllResumeOps
    /\ fs[SnapZipP] = NoFile /\ fs[DownloadedZipP] = NoFile
    /\ fs[SrcP].kind = "tree" /\ fs[SrcP] = first.tree

EntryNames(tree) == {LastOf(p) : p \in tree}

\* C19: after a successful Packager run the package directory is gone and
\* the archive is in the build output directory; the copy loop leaves out
\* only chrome.exe (copied to the root) and the chromePortable-* entries,
\* so a second Packager run on the same build output directory copies the
\* first run's archive into its version subdirectory, and the entries of
\* the second package are not those of the first.
C19_SecondPackage ==
    /\ retCode = 0 /\ pkgZipCode = 0 /\ pc \in {"pubDelete", "pubUpload", "done"} =>
         /\ pkg = {} /\ PortableRoot \notin outDir
         /\ archiveName \in outDir
    /\ pc = "compress" =>
         \A f \in outDir : f # ChromeExe /\ ~StartsWithPortable(f) => VersionDir \o <<f>> \in pkg
    /\ second /\ first.pkgZipCode = 0 /\ buildOutDir = carried.dir /\ pc \in {"compress", "cleanup"} =>
         /\ first.archiveName \in outDir
         /\ VersionDir \o <<first.archiveName>> \in pkg
         /\ EntryNames(pkg) # EntryNames(first.archived)
         /\ pc = "cleanup" => archived # first.archived

C19_Witness ==
    /\ second /\ pc = "cleanup" /\ first.pkgZipCode = 0 /\ first.archiveName # <<>>
    /\ VersionDir \o <<first.archiveName>> \in archived
    /\ first.archiveName \notin EntryNames(first.archived)

OwnExpected == {Expected(<<x86, arm>>)[2], Expected(<<x86, arm>>)[3]}
OtherExpected == {Expected(otherSel)[2], Expected(otherSel)[3]}

\* C18: with two invocations for different architecture selections
\* interleaved in any order on one artifact store, every get, delete and
\* upload of an invocation names only the snapshot and the final artifact
\* of its own architecture, the two pairs of names have nothing in common,
\* and no step of one invocation changes an artifact of the other.
C18_State ==
    /\ \A c \in calls : c[2] \in OwnExpected
    /\ otherCalls \subseteq OtherExpected
    /\ OwnExpected \cap OtherExpected = {}
    /\ \A n \in OwnExpected : store[n] # "other"
    /\ \A n \in OtherExpected : store[n] # "new"
C18_Step ==
    /\ pc' # pc => \A n \in Names \ OwnExpected : store'[n] = store[n] /\ blob'[n] = blob[n]
    /\ pc' = pc => \A n \in Names \ OtherExpected : store'[n] = store[n] /\ blob'[n] = blob[n]
C18_Isolation == []C18_State /\ [][C18_Step]_vars

C18_Witness ==
    /\ <<"get", ArtifactName(x86, arm)>> \in calls
    /\ store[FinalArtifactName(x86, arm)] = "new"
    /\ otherCalls = OtherNames
    /\ \A n \in OtherNames : store[n] = "other"
====
